---- MODULE Spec2Model ----
(***************************************************************************)
(* Model of the changelog command of jx-changelog                          *)
(* (pkg/cmd/changelog/changelog.go): Options.Run, addCommit,               *)
(* addIssuesAndPullRequests, getTemplateResult and                         *)
(* CollapseDependencyUpdates.                                              *)
(*                                                                         *)
(* Strings the code compares, trims or concatenates are sequences of       *)
(* pieces (characters or words), so that "<", TrimPrefix, HasPrefix and    *)
(* "+" are computed and not assumed.                                       *)
(***************************************************************************)
EXTENDS Integers, Sequences, FiniteSets

\* ------------------------------------------------------------------------
\* Bounds of the model
\* ------------------------------------------------------------------------
\* longest list of commits the commit source returns
MaxCommits == 2
\* number of different issues that commit messages mention
MaxIssue == 2
\* most issue references in one commit message
MaxRefs == 2
\* longest list of dependency updates handed to CollapseDependencyUpdates
MaxDeps == 3
\* number of successive CollapseDependencyUpdates calls that are followed
MaxCollapseCalls == 2
\* the number of times the command is run on one repository
MaxRuns == 2

\* ------------------------------------------------------------------------
\* Go strings: byte-wise comparison
\* ------------------------------------------------------------------------
Chars == {".", "0", "1", "2", "5", "A", "B", "C", "R", "S"}

\* the byte value of each character that occurs in a compared string
Ord ==
  [c \in Chars |->
     CASE c = "." -> 46
       [] c = "0" -> 48
       [] c = "1" -> 49
       [] c = "2" -> 50
       [] c = "5" -> 53
       [] c = "A" -> 65
       [] c = "B" -> 66
       [] c = "C" -> 67
       [] c = "R" -> 82
       [] c = "S" -> 83]

MinOf(a, b) == IF a < b THEN a ELSE b

\* Go's a < b on strings: a is a proper prefix of b, or the first byte in
\* which they differ is smaller in a
StrLess(a, b) ==
  \/ Len(a) < Len(b) /\ SubSeq(b, 1, Len(a)) = a
  \/ \E i \in 1..MinOf(Len(a), Len(b)) :
       /\ SubSeq(a, 1, i - 1) = SubSeq(b, 1, i - 1)
       /\ Ord[a[i]] < Ord[b[i]]

\* ------------------------------------------------------------------------
\* CollapseDependencyUpdates
\* ------------------------------------------------------------------------
\* v1.DependencyUpdate as built at lines 856-870 (the fields of the embedded
\* DependencyUpdateDetails)
Dep(owner, repo, component, url, from, fromName, to, toName) ==
  [Owner |-> owner, Repo |-> repo, Component |-> component,
   URL |-> url, Host |-> "github.com",
   FromVersion |-> from, FromReleaseHTMLURL |-> <<"rel/", from>>,
   FromReleaseName |-> fromName,
   ToVersion |-> to, ToReleaseName |-> toName,
   ToReleaseHTMLURL |-> <<"rel/", to>>]

Key(d) == <<d.Owner, d.Repo, d.Component>>

\* the comparison function handed to sort.Slice
DepLess(x, y) ==
  IF x.Owner = y.Owner
    THEN IF x.Repo = y.Repo
           THEN IF x.Component = y.Component
                  THEN IF x.FromVersion = y.FromVersion
                         THEN StrLess(x.ToVersion, y.ToVersion)
                         ELSE StrLess(x.FromVersion, y.FromVersion)
                  ELSE StrLess(x.Component, y.Component)
           ELSE StrLess(x.Repo, y.Repo)
    ELSE StrLess(x.Owner, y.Owner)

Orderings(n) ==
  {p \in [1..n -> 1..n] : \A i, j \in 1..n : i # j => p[i] # p[j]}

\* sort.Slice: the slice is rearranged into some order in which no element
\* is less than an earlier one; the order of elements that compare equal is
\* not specified (the sort is not stable)
SortSlice(s) ==
  {t \in {[i \in 1..Len(s) |-> s[p[i]]] : p \in Orderings(Len(s))} :
     \A i \in 1..Len(s), j \in 1..Len(s) : i < j => ~DepLess(t[j], t[i])}

\* the condition that closes a group at (1-based) position i
GroupEndsNoOwner(d, i) ==
  \/ i = Len(d)
  \/ d[i].Repo # d[i + 1].Repo
  \/ d[i].Component # d[i + 1].Component

GroupEnds(d, i) ==
  \/ i = Len(d)
  \/ d[i].Owner # d[i + 1].Owner
  \/ d[i].Repo # d[i + 1].Repo
  \/ d[i].Component # d[i + 1].Component

\* the record appended for the group d[start..end]
CollapsedDropURL(d, start, end) ==
  [Owner |-> d[start].Owner, Repo |-> d[start].Repo,
   Component |-> d[start].Component,
   URL |-> <<>>, Host |-> d[start].Host,
   FromVersion |-> d[start].FromVersion,
   FromReleaseHTMLURL |-> d[start].FromReleaseHTMLURL,
   FromReleaseName |-> d[start].FromReleaseName,
   ToVersion |-> d[end].ToVersion,
   ToReleaseName |-> d[end].ToReleaseName,
   ToReleaseHTMLURL |-> d[end].ToReleaseHTMLURL]

Collapsed(d, start, end) ==
  [Owner |-> d[start].Owner, Repo |-> d[start].Repo,
   Component |-> d[start].Component,
   URL |-> d[start].URL, Host |-> d[start].Host,
   FromVersion |-> d[start].FromVersion,
   FromReleaseHTMLURL |-> d[start].FromReleaseHTMLURL,
   FromReleaseName |-> d[start].FromReleaseName,
   ToVersion |-> d[end].ToVersion,
   ToReleaseName |-> d[end].ToReleaseName,
   ToReleaseHTMLURL |-> d[end].ToReleaseHTMLURL]

\* the loop "for i := 1; i <= len(dependencyUpdates); i++" over the sorted
\* slice, positions counted from 1
RECURSIVE CollapseLoop(_, _, _, _)
CollapseLoop(d, start, i, collapsed) ==
  IF i > Len(d)
    THEN collapsed
    ELSE IF GroupEnds(d, i)
           THEN CollapseLoop(d, i + 1, i + 1,
                             Append(collapsed, Collapsed(d, start, i)))
           ELSE CollapseLoop(d, start, i + 1, collapsed)

\* the result for a slice that sort.Slice has left in the order d
CollapseSorted(d) == IF Len(d) > 0 THEN CollapseLoop(d, 1, 1, <<>>) ELSE <<>>

\* CollapseDependencyUpdates: every <<slice after the in-place sort, result>>
\* the call can produce
CollapseDependencyUpdates(dependencyUpdates) ==
  {<<d, CollapseSorted(d)>> : d \in SortSlice(dependencyUpdates)}

\* ------------------------------------------------------------------------
\* Inputs of CollapseDependencyUpdates
\* ------------------------------------------------------------------------
Triples ==
  {<<<<"A">>, <<"R">>, <<"C">>>>, <<<<"A">>, <<"R">>, <<"C", "2">>>>,
   <<<<"A">>, <<"S">>, <<"C">>>>, <<<<"B">>, <<"R">>, <<"C">>>>}

V05 == <<"0", ".", "5">>
V10 == <<"1", ".", "0">>
V11 == <<"1", ".", "1">>
V20 == <<"2", ".", "0">>

\* the version bumps: from an older to a newer version
Bumps == {<<V05, V10>>, <<V05, V20>>, <<V10, V11>>, <<V10, V20>>}

\* the records of the inputs: every triple with every bump, and for one
\* triple a second record of the same bump that differs in the fields which
\* are not compared (URL and release names)
DepRecords ==
  {Dep(t[1], t[2], t[3], <<"u1">>, b[1], <<"n1">>, b[2], <<"n1">>) :
     t \in Triples, b \in Bumps}
  \cup
  {Dep(<<"A">>, <<"R">>, <<"C">>, <<"u2">>, b[1], <<"n2">>, b[2], <<"n2">>) :
     b \in {<<V05, V10>>, <<V10, V20>>}}

SeqsUpTo(S, n) == UNION {[1..k -> S] : k \in 0..n}

\* ------------------------------------------------------------------------
\* String helpers used by Run
\* ------------------------------------------------------------------------
\* strings.TrimPrefix and strings.HasPrefix, for a prefix of one piece
HasPrefix(s, prefix) == Len(s) > 0 /\ Head(s) = prefix

TrimPrefix(s, prefix) == IF HasPrefix(s, prefix) THEN Tail(s) ELSE s

\* the issue numbers that commit messages mention, as decimal strings
Numerals == <<"1", "2", "3", "4">>

\* GitHubIssueRegex.FindAllStringSubmatch(message, -1): one match per "#"
\* followed by a number, each match being <<whole match, group 1>>
RECURSIVE FindAllStringSubmatch(_)
FindAllStringSubmatch(message) ==
  IF Len(message) < 2
    THEN <<>>
    ELSE IF message[1] = "#" /\ \E k \in 1..Len(Numerals) : message[2] = Numerals[k]
           THEN <<<<SubSeq(message, 1, 2), SubSeq(message, 1, 2)>>>>
                  \o FindAllStringSubmatch(SubSeq(message, 3, Len(message)))
           ELSE FindAllStringSubmatch(Tail(message))

\* fullCommitMessageText: the commit's message with the same message
\* appended to it once more
fullCommitMessageText(commit) ==
  IF commit.Message # <<>>
    THEN commit.Message \o <<"\n">> \o commit.Message
    ELSE commit.Message

\* the results the two nested loops of addIssuesAndPullRequests visit, in
\* order: every element of every match
RECURSIVE Results(_)
Results(matches) ==
  IF matches = <<>> THEN <<>> ELSE Head(matches) \o Results(Tail(matches))

\* ------------------------------------------------------------------------
\* Templates (text/template) and getTemplateResult
\* ------------------------------------------------------------------------
SpecVersion == <<"{{ .Chart.Version }}">>

\* template.Parse fails on an action that is never closed
ParseFails(templateText) == \E i \in 1..Len(templateText) : templateText[i] = "{{"

\* tmpl.Execute: literal pieces are copied, {{.Version}} is replaced by the
\* version of the release spec, a field the spec does not have stops the
\* execution with an error and leaves what was written before it
RECURSIVE Execute(_, _, _)
Execute(templateText, releaseSpec, written) ==
  IF templateText = <<>>
    THEN [out |-> written, err |-> "nil"]
    ELSE IF Head(templateText) = "{{.Version}}"
           THEN Execute(Tail(templateText), releaseSpec, written \o releaseSpec.Version)
           ELSE IF Head(templateText) = "{{.Missing}}"
                  THEN [out |-> written, err |-> "template"]
                  ELSE Execute(Tail(templateText), releaseSpec,
                               Append(written, Head(templateText)))

\* the files a header-file or footer-file flag can name; ioutil.ReadFile
\* fails for a file that does not exist
TemplateFiles ==
  [f \in {"notes.md", "empty.md"} |->
     IF f = "notes.md" THEN <<"F:", "{{.Version}}", "\n">> ELSE <<>>]

ReadFile(templateFile) ==
  IF templateFile \in DOMAIN TemplateFiles
    THEN [data |-> TemplateFiles[templateFile], err |-> "nil"]
    ELSE [data |-> <<>>, err |-> "read"]

\* what is done with a template text once it has been determined
Expand(templateText, releaseSpec) ==
  IF templateText = <<>>
    THEN [out |-> <<>>, err |-> "nil"]
    ELSE IF ParseFails(templateText)
           THEN [out |-> <<>>, err |-> "template"]
           ELSE Execute(templateText, releaseSpec, <<>>)

getTemplateResult(releaseSpec, templateText, templateFile) ==
  IF templateText = <<>>
    THEN IF templateFile = ""
           THEN [out |-> <<>>, err |-> "nil"]
           ELSE IF ReadFile(templateFile).err # "nil"
                  THEN [out |-> <<>>, err |-> ReadFile(templateFile).err]
                  ELSE Expand(ReadFile(templateFile).data, releaseSpec)
    ELSE Expand(templateText, releaseSpec)

\* gits.GenerateMarkdown: the body of the changelog, a title and one line for
\* every commit summary of the release spec
GenerateMarkdown(releaseSpec) ==
  <<"## Changes\n">> \o [i \in 1..Len(releaseSpec.Commits) |-> releaseSpec.Commits[i].SHA]

\* markdown = header + markdown + footer
JoinSwapped(header, body, footer) == body \o header \o footer

Join(header, body, footer) == header \o body \o footer

\* ------------------------------------------------------------------------
\* addCommit and addIssuesAndPullRequests
\* ------------------------------------------------------------------------
\* users.GitUserResolver: the user details of an identity, or none ("")
\* when the identity is unknown or the lookup failed
ResolveUser(resolver, identity) ==
  IF resolver[identity] = "user" THEN identity ELSE ""

\* the tracker's answer to GetIssue(result): what[result] is "error" (err is
\* set), "nil" (no issue and no error), "issue" or "pr"
GetIssue(what, result) ==
  [err |-> what[result] = "error",
   found |-> what[result] \in {"issue", "pr"},
   Author |-> "bob",
   PullRequest |-> what[result] = "pr",
   Title |-> <<"issue ">> \o result]

\* the summary appended for a fetched issue
IssueSummary(result, issue, resolver) ==
  [ID |-> result, Title |-> issue.Title,
   User |-> ResolveUser(resolver, issue.Author)]

\* what a fetched issue changes: the commit's IssueIDs and one of the lists
AddIssueToBoth(s, result, issue, resolver) ==
  [s EXCEPT !.IssueIDs = Append(@, result),
            !.PullRequests = Append(@, IssueSummary(result, issue, resolver)),
            !.Issues = Append(@, IssueSummary(result, issue, resolver))]

AddIssue(s, result, issue, resolver) ==
  IF issue.PullRequest
    THEN [s EXCEPT !.IssueIDs = Append(@, result),
                   !.PullRequests = Append(@, IssueSummary(result, issue, resolver))]
    ELSE [s EXCEPT !.IssueIDs = Append(@, result),
                   !.Issues = Append(@, IssueSummary(result, issue, resolver))]

\* the body of the inner loop for one result that is not in FoundIssueNames;
\* s holds what the loop works on: FoundIssueNames, the GetIssue calls made,
\* the commit's IssueIDs, and the Issues and PullRequests of the spec
LookupMarkingOnSuccess(s, result, what, resolver) ==
  LET issue == GetIssue(what, result)
      called == [s EXCEPT !.calls = Append(@, [id |-> result, got |-> what[result]])]
  IN  IF issue.err \/ ~issue.found
        THEN called
        ELSE AddIssue([called EXCEPT !.FoundIssueNames = @ \cup {result}],
                      result, issue, resolver)

Lookup(s, result, what, resolver) ==
  LET issue == GetIssue(what, result)
      called == [s EXCEPT !.FoundIssueNames = @ \cup {result},
                          !.calls = Append(@, [id |-> result, got |-> what[result]])]
  IN  IF issue.err \/ ~issue.found
        THEN called
        ELSE AddIssue(called, result, issue, resolver)

\* the two nested loops over the matches, as one loop over their results
RECURSIVE ForEachResultAborting(_, _, _, _)
ForEachResultAborting(results, s, what, resolver) ==
  IF results = <<>>
    THEN s
    ELSE LET result == TrimPrefix(Head(results), "#")
         IN  IF result \in s.FoundIssueNames
               THEN ForEachResultAborting(Tail(results), s, what, resolver)
               ELSE IF what[result] \in {"error", "nil"}
                      THEN Lookup(s, result, what, resolver)
                      ELSE ForEachResultAborting(Tail(results),
                             Lookup(s, result, what, resolver), what, resolver)

RECURSIVE ForEachResult(_, _, _, _)
ForEachResult(results, s, what, resolver) ==
  IF results = <<>>
    THEN s
    ELSE LET result == TrimPrefix(Head(results), "#")
         IN  IF result \in s.FoundIssueNames
               THEN ForEachResult(Tail(results), s, what, resolver)
               ELSE ForEachResult(Tail(results),
                                  Lookup(s, result, what, resolver), what, resolver)

\* addIssuesAndPullRequests for the commit rawCommit
addIssuesAndPullRequests(s, rawCommit, what, resolver) ==
  ForEachResult(Results(FindAllStringSubmatch(fullCommitMessageText(rawCommit))),
                s, what, resolver)

\* the identifiers a commit's message mentions
MentionedIn(commit) ==
  {TrimPrefix(m[1], "#") : m \in
     {FindAllStringSubmatch(commit.Message)[i] :
        i \in 1..Len(FindAllStringSubmatch(commit.Message))}}

\* addCommit: the commit summary with the resolved author and committer and
\* the issue identifiers that addIssuesAndPullRequests gave it
CommitSummaryWithoutIDs(commit, resolver, issueIDs) ==
  [SHA |-> commit.Hash, Message |-> commit.Message,
   Author |-> ResolveUser(resolver, commit.Author),
   Committer |-> ResolveUser(resolver, commit.Committer),
   IssueIDs |-> <<>>]

CommitSummary(commit, resolver, issueIDs) ==
  [SHA |-> commit.Hash, Message |-> commit.Message,
   Author |-> ResolveUser(resolver, commit.Author),
   Committer |-> ResolveUser(resolver, commit.Committer),
   IssueIDs |-> issueIDs]

\* addCommit, line 678: the summary goes to the end of spec.Commits
PrependCommit(summaries, commitSummary) == <<commitSummary>> \o summaries

AppendCommit(summaries, commitSummary) == Append(summaries, commitSummary)

\* the condition under which the loop of Run hands a commit to addCommit
IncludedIgnoringFlag(includeMergeCommits, commit) == commit.Parents <= 1

Included(includeMergeCommits, commit) ==
  includeMergeCommits \/ commit.Parents <= 1

\* the commits Run works on: the fetched ones without a leading release commit
WithoutReleaseCommit(fetched) ==
  IF Len(fetched) > 0 /\ HasPrefix(fetched[1].Message, "release ")
    THEN Tail(fetched)
    ELSE fetched

\* ------------------------------------------------------------------------
\* State
\* ------------------------------------------------------------------------
VARIABLES
  o,            \* the Options: the command line flags
  env,          \* what surrounds the run: the user resolver's answers, the
                \* tags of the repository, the call that fails (if any)
  git,          \* the commit source: the commits between the two revisions
  pc,           \* the position of Run
  commits,      \* Run's local commits
  idx,          \* the position of the loop over commits
  release,      \* release.Spec, the release record Run builds
  State,        \* o.State
  trackerCalls, \* the GetIssue calls made on the tracker, in order
  markdown,     \* Run's local markdown
  result,       \* what Run returned: "running", "nil" or the error
  scmReleases,  \* the releases of the remote release store
  fs,           \* the files Run writes
  activity,     \* the PipelineActivity of the build
  runNo,        \* the number of the run of the command that is under way
  depsIn,       \* CollapseDependencyUpdates: the slice of the first call
  depsArg,      \* the slice handed to the next call
  depsOut,      \* the results of the calls made, in order
  collapseCalls \* the number of calls made

runVars == <<o, env, git, pc, commits, idx, release, State, trackerCalls,
             markdown, result, scmReleases, fs, activity, runNo>>
collapseVars == <<depsIn, depsArg, depsOut, collapseCalls>>
vars == <<runVars, collapseVars>>

\* ------------------------------------------------------------------------
\* Inputs of Run
\* ------------------------------------------------------------------------
IssueNames == {<<Numerals[k]>> : k \in 1..MaxIssue}

\* the references of one message: up to MaxRefs different issues
RefLists ==
  {r \in SeqsUpTo(IssueNames, MaxRefs) :
     \A i, j \in 1..Len(r) : i # j => r[i] # r[j]}

RECURSIVE RefText(_)
RefText(refs) ==
  IF refs = <<>> THEN <<>> ELSE <<"#">> \o Head(refs) \o RefText(Tail(refs))

\* a commit with one parent, or with two when it is a merge commit
RawCommit(hash, message, parents) ==
  [Hash |-> hash, Message |-> message, Parents |-> parents,
   Author |-> "alice", Committer |-> "bob"]

Hashes == <<"c1", "c2", "c3", "c4">>

\* the lists of up to MaxCommits commits whose <<message, parents>> are in kinds
CommitListsOf(kinds) ==
  {[i \in 1..Len(l) |-> RawCommit(Hashes[i], l[i][1], l[i][2])] :
     l \in SeqsUpTo(kinds, MaxCommits)}

\* commits with one parent that reference any issues
PlainCommitLists == CommitListsOf({<<RefText(r), 1>> : r \in RefLists})

\* merge commits and other commits, after "release " or not, that reference
\* the first issue or none
MixedCommitLists ==
  CommitListsOf({<<prefix \o RefText(r), n>> :
                   prefix \in {<<>>, <<"release ">>},
                   r \in {<<>>, <<<<Numerals[1]>>>>},
                   n \in {1, 2}})

\* commits with one parent that reference no issue, the first issue, or the
\* first two
FewCommitLists ==
  CommitListsOf({<<RefText(r), 1>> :
                   r \in {<<>>, <<<<Numerals[1]>>>>,
                          <<<<Numerals[1]>>, <<Numerals[2]>>>>}})

\* the commit list of the runs that vary the flags and the surroundings
OneCommit == <<RawCommit(Hashes[1], <<"#", "1">>, 1)>>

Identities == {"alice", "bob"}
ResolverAnswers == {"user", "none", "error"}
TrackerAnswers == {"error", "nil", "issue", "pr"}

V201 == <<"2.0.1">>
Versions == {<<>>, V201, <<"v">> \o V201}

Faults == {"none", "markdown", "tags", "find", "create", "update",
           "writeMarkdown", "writeYaml", "activity"}

\* the flags as NewCmdChangelogCreate sets them, for version 2.0.1
DefaultOptions ==
  [Version |-> V201, Header |-> <<>>, HeaderFile |-> "", Footer |-> <<>>,
   FooterFile |-> "", OutputMarkdownFile |-> "", GenerateReleaseYaml |-> TRUE,
   UpdateRelease |-> TRUE, IncludeMergeCommits |-> FALSE,
   FailIfFindCommits |-> FALSE, BuildNumber |-> "1"]

DefaultEnv ==
  [resolver |-> [i \in Identities |-> "user"], gitTags |-> {V201},
   existingTag |-> <<>>, fault |-> "none", runs |-> 1]

\* the ways a header or a footer is configured: <<text, file>>
TemplateConfigs ==
  {<<<<>>, "">>,
   <<<<"H:", "{{.Version}}", "\n">>, "">>,
   <<<<"H:", "{{">>, "">>,
   <<<<"H:", "{{.Missing}}">>, "">>,
   <<<<>>, "notes.md">>,
   <<<<>>, "empty.md">>,
   <<<<>>, "absent.md">>,
   <<<<"H:", "{{.Version}}", "\n">>, "absent.md">>}

\* runs that vary the issue references of the commits
ReferenceRuns ==
  {[o |-> DefaultOptions, env |-> DefaultEnv,
    git |-> [commits |-> l, err |-> FALSE]] : l \in PlainCommitLists}

\* runs that vary the merge commits, the release commits and the
\* merge-commit flag
InclusionRuns ==
  {[o |-> [DefaultOptions EXCEPT !.IncludeMergeCommits = m],
    env |-> DefaultEnv,
    git |-> [commits |-> l, err |-> FALSE]] :
     m \in BOOLEAN, l \in MixedCommitLists}

\* runs that vary the answers of the user resolver
ResolverRuns ==
  {[o |-> DefaultOptions,
    env |-> [DefaultEnv EXCEPT !.resolver = r],
    git |-> [commits |-> l, err |-> FALSE]] :
     r \in [Identities -> ResolverAnswers], l \in FewCommitLists}

\* runs in which the commit source fails or has no commit to return
FetchRuns ==
  {[o |-> [DefaultOptions EXCEPT !.FailIfFindCommits = f],
    env |-> DefaultEnv,
    git |-> [commits |-> <<>>, err |-> e]] : f \in BOOLEAN, e \in BOOLEAN}

\* runs that vary the header, the footer and the version
RenderRuns ==
  {[o |-> [DefaultOptions EXCEPT !.Header = h[1], !.HeaderFile = h[2],
                                 !.Footer = f[1], !.FooterFile = f[2],
                                 !.Version = v],
    env |-> DefaultEnv,
    git |-> [commits |-> l, err |-> FALSE]] :
     h \in TemplateConfigs, f \in TemplateConfigs, v \in Versions,
     l \in {<<>>, OneCommit}}

\* runs that vary the outputs, the release store and the call that fails
PublishRuns ==
  {[o |-> [DefaultOptions EXCEPT !.UpdateRelease = u, !.OutputMarkdownFile = m,
                                 !.GenerateReleaseYaml = y, !.BuildNumber = b,
                                 !.Version = v],
    env |-> [DefaultEnv EXCEPT !.gitTags = t, !.existingTag = e, !.fault = x,
                               !.runs = n],
    git |-> [commits |-> OneCommit, err |-> FALSE]] :
     u \in BOOLEAN, m \in {"", "changelog.md"}, y \in BOOLEAN, b \in {"", "1"},
     v \in {V201, <<"v">> \o V201},
     t \in SUBSET {V201, <<"v">> \o V201},
     e \in {<<>>, V201, <<"v">> \o V201}, x \in Faults, n \in 1..MaxRuns}

Runs == ReferenceRuns \cup InclusionRuns \cup ResolverRuns \cup FetchRuns \cup RenderRuns \cup PublishRuns

\* ------------------------------------------------------------------------
\* Run
\* ------------------------------------------------------------------------
\* the release spec Run starts from
NewReleaseSpec(version) ==
  [Version |-> version, Commits |-> <<>>, Issues |-> <<>>, PullRequests |-> <<>>,
   DependencyUpdates |-> <<>>, ReleaseNotesURL |-> <<>>]

NoFiles ==
  [markdown |-> [written |-> FALSE, data |-> <<>>],
   releaseYaml |-> [written |-> FALSE, data |-> NewReleaseSpec(<<>>)]]

NoActivity ==
  [updated |-> FALSE, LastCommitSHA |-> "", LastCommitMessage |-> <<>>,
   ReleaseNotesURL |-> <<>>, Version |-> <<>>]

\* the releases the remote store holds before the run
ReleasesBefore(e) ==
  IF e.existingTag = <<>>
    THEN {}
    ELSE {[ID |-> 1, Tag |-> e.existingTag, Title |-> <<"old">>,
           Description |-> <<"old notes">>, Link |-> <<"https://scm/releases/1">>]}

Init ==
  /\ \E run \in Runs : o = run.o /\ env = run.env /\ git = run.git
  /\ pc = "fetch"
  /\ commits = <<>>
  /\ idx = 1
  /\ release = NewReleaseSpec(<<>>)
  /\ State = [FoundIssueNames |-> {}, LoggedIssueKind |-> FALSE, Release |-> "nil"]
  /\ trackerCalls = <<>>
  /\ markdown = <<>>
  /\ result = "running"
  /\ scmReleases = ReleasesBefore(env)
  /\ fs = NoFiles
  /\ activity = NoActivity
  /\ runNo = 1
  /\ depsIn = <<>> /\ depsArg = <<>> /\ depsOut = <<>> /\ collapseCalls = 0

\* Run returns err (or nil)
Return(err) == result' = err /\ pc' = "done"

\* lines 315-376: the found set is emptied, the commits are fetched, a leading
\* release commit is removed and the release record is created
FetchCommits ==
  /\ pc = "fetch"
  /\ State' = [State EXCEPT !.FoundIssueNames = {}]
  /\ IF git.err /\ o.FailIfFindCommits
       THEN /\ Return("fetch")
            /\ UNCHANGED <<commits, release>>
       ELSE /\ commits' = WithoutReleaseCommit(IF git.err THEN <<>> ELSE git.commits)
            /\ release' = NewReleaseSpec(IF o.Version = <<>> THEN SpecVersion ELSE o.Version)
            /\ pc' = "commits"
            /\ UNCHANGED result
  /\ UNCHANGED <<o, env, git, idx, trackerCalls, markdown, scmReleases, fs,
                 activity, runNo,
                 collapseVars>>

\* lines 383-388 and addCommit: one turn of the loop for a commit that is
\* included; the tracker answers for the identifiers it is asked about, which
\* are among those the message mentions and the found set does not hold
AddCommit ==
  /\ pc = "commits"
  /\ idx <= Len(commits)
  /\ Included(o.IncludeMergeCommits, commits[idx])
  /\ \E what \in [MentionedIn(commits[idx]) \ State.FoundIssueNames -> TrackerAnswers] :
       LET s == addIssuesAndPullRequests(
                  [FoundIssueNames |-> State.FoundIssueNames, calls |-> trackerCalls,
                   IssueIDs |-> <<>>, Issues |-> release.Issues,
                   PullRequests |-> release.PullRequests],
                  commits[idx], what, env.resolver)
       IN  /\ State' = [State EXCEPT !.FoundIssueNames = s.FoundIssueNames,
                                     !.LoggedIssueKind = TRUE]
           /\ trackerCalls' = s.calls
           /\ release' = [release EXCEPT
                            !.Issues = s.Issues,
                            !.PullRequests = s.PullRequests,
                            !.Commits = AppendCommit(@, CommitSummary(commits[idx],
                                                         env.resolver, s.IssueIDs))]
  /\ idx' = idx + 1
  /\ UNCHANGED <<o, env, git, pc, commits, markdown, result, scmReleases, fs,
                 activity, runNo,
                 collapseVars>>

\* one turn of the loop for a merge commit that is left out
SkipCommit ==
  /\ pc = "commits"
  /\ idx <= Len(commits)
  /\ ~Included(o.IncludeMergeCommits, commits[idx])
  /\ idx' = idx + 1
  /\ UNCHANGED <<o, env, git, pc, commits, release, State, trackerCalls, markdown,
                 result, scmReleases, fs, activity, runNo,
                 collapseVars>>

\* lines 398-405: the error of the header, else the error of the footer
TemplateErrorOfHeaderOnly(header, footer) == header.err

TemplateError(header, footer) ==
  IF header.err # "nil" THEN header.err ELSE footer.err

\* lines 391-406: the dependency updates are collapsed, the body is generated
\* and the header and the footer are put around it
Render ==
  /\ pc = "commits"
  /\ idx > Len(commits)
  /\ \E c \in CollapseDependencyUpdates(release.DependencyUpdates) :
       LET spec == [release EXCEPT !.DependencyUpdates = c[2]]
           header == getTemplateResult(spec, o.Header, o.HeaderFile)
           footer == getTemplateResult(spec, o.Footer, o.FooterFile)
       IN  /\ release' = spec
           /\ IF env.fault = "markdown"
                THEN Return("markdown") /\ UNCHANGED markdown
                ELSE IF TemplateError(header, footer) # "nil"
                       THEN Return(TemplateError(header, footer)) /\ UNCHANGED markdown
                       ELSE /\ markdown' = Join(header.out, GenerateMarkdown(spec),
                                                footer.out)
                            /\ pc' = "publish"
                            /\ UNCHANGED result
  /\ UNCHANGED <<o, env, git, commits, idx, State, trackerCalls, scmReleases, fs,
                 activity, runNo,
                 collapseVars>>

\* the tag of the release: the version, or "v" + version when only that is a
\* tag of the repository
TagName(version, gitTags) ==
  IF (<<"v">> \o version) \in gitTags /\ version \notin gitTags
    THEN <<"v">> \o version
    ELSE version

\* stringhelpers.UrlJoin(gitInfo.HttpsURL(), "releases/tag", tagName)
ReleaseURL(rel, tagName) ==
  IF rel.Link # <<>> THEN rel.Link ELSE <<"https://scm/releases/tag/">> \o tagName

\* scmClient.Releases.FindByTag: the releases of the store with the tag
FindByTagNotFound(releases, tagName) == {}

FindByTag(releases, tagName) == {r \in releases : r.Tag = tagName}

\* lines 410-493: the release of the tag is created or updated in the remote
\* store, or the markdown is written to a file, or it is only logged
Publish ==
  /\ pc = "publish"
  /\ IF release.Version # <<>> /\ o.UpdateRelease
       THEN LET tagName == TagName(release.Version, env.gitTags)
                found == FindByTag(scmReleases, tagName)
                input == [Title |-> release.Version, Tag |-> tagName,
                          Description |-> markdown]
            IN  IF env.fault \in {"tags", "find"}
                  THEN Return(env.fault) /\ UNCHANGED <<scmReleases, release, fs>>
                  ELSE IF found = {}
                         THEN IF env.fault = "create"
                                THEN Return("nil") /\ UNCHANGED <<scmReleases, release, fs>>
                                ELSE LET rel == [ID |-> Cardinality(scmReleases) + 1,
                                                 Tag |-> input.Tag, Title |-> input.Title,
                                                 Description |-> input.Description,
                                                 Link |-> <<>>]
                                     IN  /\ scmReleases' = scmReleases \cup {rel}
                                         /\ release' = [release EXCEPT !.ReleaseNotesURL =
                                                          ReleaseURL(rel, tagName)]
                                         /\ pc' = "store"
                                         /\ UNCHANGED <<result, fs>>
                         ELSE \E old \in found :
                                IF env.fault = "update"
                                  THEN Return("nil") /\ UNCHANGED <<scmReleases, release, fs>>
                                  ELSE LET rel == [old EXCEPT !.Tag = input.Tag,
                                                              !.Title = input.Title,
                                                              !.Description = input.Description]
                                       IN  /\ scmReleases' = (scmReleases \ {old}) \cup {rel}
                                           /\ release' = [release EXCEPT !.ReleaseNotesURL =
                                                            ReleaseURL(rel, tagName)]
                                           /\ pc' = "store"
                                           /\ UNCHANGED <<result, fs>>
       ELSE IF o.OutputMarkdownFile # ""
              THEN IF env.fault = "writeMarkdown"
                     THEN Return("writeMarkdown") /\ UNCHANGED <<scmReleases, release, fs>>
                     ELSE /\ fs' = [fs EXCEPT !.markdown = [written |-> TRUE, data |-> markdown]]
                          /\ pc' = "store"
                          /\ UNCHANGED <<result, scmReleases, release>>
              ELSE /\ pc' = "store"
                   /\ UNCHANGED <<result, scmReleases, release, fs>>
  /\ UNCHANGED <<o, env, git, commits, idx, State, trackerCalls, markdown, activity,
                 runNo,
                 collapseVars>>

\* lines 495-533: the release is kept in o.State, written as release YAML
\* when that is enabled, and its version loses a leading "v"
StoreRelease ==
  /\ pc = "store"
  /\ State' = [State EXCEPT !.Release = "release"]
  /\ IF o.GenerateReleaseYaml /\ env.fault = "writeYaml"
       THEN Return("writeYaml") /\ UNCHANGED <<fs, release>>
       ELSE /\ fs' = IF o.GenerateReleaseYaml
                       THEN [fs EXCEPT !.releaseYaml = [written |-> TRUE, data |-> release]]
                       ELSE fs
            /\ release' = [release EXCEPT !.Version = TrimPrefix(@, "v")]
            /\ pc' = "activity"
            /\ UNCHANGED result
  /\ UNCHANGED <<o, env, git, commits, idx, trackerCalls, markdown, scmReleases,
                 activity, runNo,
                 collapseVars>>

\* doUpdate of the PipelineActivity callback
doUpdate(oldValue, newValue, empty) ==
  IF newValue = empty \/ newValue = oldValue THEN oldValue ELSE newValue

\* the PipelineActivity after the callback of lines 547-569
UpdatedActivity(a, spec) ==
  LET n == Len(spec.Commits)
      c == [a EXCEPT
              !.LastCommitSHA = IF n > 0 THEN doUpdate(@, spec.Commits[n].SHA, "") ELSE @,
              !.LastCommitMessage =
                 IF n > 0 THEN doUpdate(@, spec.Commits[n].Message, <<>>) ELSE @,
              !.ReleaseNotesURL = doUpdate(@, spec.ReleaseNotesURL, <<>>),
              !.Version = doUpdate(@, spec.Version, <<>>)]
  IN  [c EXCEPT !.updated = (c # a)]

\* lines 534-573 and updatePipelineActivity: the PipelineActivity of the
\* build is updated when a build number is known
UpdateActivity ==
  /\ pc = "activity"
  /\ IF o.BuildNumber # ""
       THEN IF env.fault = "activity"
              THEN Return("activity") /\ UNCHANGED activity
              ELSE /\ activity' = IF UpdatedActivity(activity, release).updated
                                    THEN UpdatedActivity(activity, release)
                                    ELSE activity
                   /\ Return("nil")
       ELSE Return("nil") /\ UNCHANGED activity
  /\ UNCHANGED <<o, env, git, commits, idx, release, State, trackerCalls, markdown,
                 scmReleases, fs, runNo,
                 collapseVars>>

\* the command is run again on the same repository with the same flags: a
\* new Options and new locals, while the release store, the files and the
\* PipelineActivity are as the earlier run left them
Rerun ==
  /\ pc = "done"
  /\ runNo < env.runs
  /\ runNo' = runNo + 1
  /\ pc' = "fetch"
  /\ commits' = <<>>
  /\ idx' = 1
  /\ release' = NewReleaseSpec(<<>>)
  /\ State' = [FoundIssueNames |-> {}, LoggedIssueKind |-> FALSE, Release |-> "nil"]
  /\ trackerCalls' = <<>>
  /\ markdown' = <<>>
  /\ result' = "running"
  /\ UNCHANGED <<o, env, git, scmReleases, fs, activity, collapseVars>>

Next ==
  \/ FetchCommits
  \/ AddCommit
  \/ SkipCommit
  \/ Render
  \/ Publish
  \/ StoreRelease
  \/ UpdateActivity
  \/ Rerun

Spec == Init /\ [][Next]_vars

\* ------------------------------------------------------------------------
\* CollapseDependencyUpdates on its own: the function is called on a list and
\* then again on what it returned
\* ------------------------------------------------------------------------
InitCollapse ==
  /\ o = DefaultOptions /\ env = DefaultEnv /\ git = [commits |-> <<>>, err |-> FALSE]
  /\ pc = "done"
  /\ commits = <<>>
  /\ idx = 1
  /\ release = NewReleaseSpec(<<>>)
  /\ State = [FoundIssueNames |-> {}, LoggedIssueKind |-> FALSE, Release |-> "nil"]
  /\ trackerCalls = <<>>
  /\ markdown = <<>>
  /\ result = "nil"
  /\ scmReleases = {}
  /\ fs = NoFiles
  /\ activity = NoActivity
  /\ runNo = 1
  /\ depsIn \in SeqsUpTo(DepRecords, MaxDeps)
  /\ depsArg = depsIn
  /\ depsOut = <<>>
  /\ collapseCalls = 0

Collapse ==
  /\ collapseCalls < MaxCollapseCalls
  /\ \E c \in CollapseDependencyUpdates(depsArg) :
       /\ depsOut' = Append(depsOut, c[2])
       /\ depsArg' = c[2]
  /\ collapseCalls' = collapseCalls + 1
  /\ UNCHANGED <<depsIn, runVars>>

NextCollapse == Collapse

SpecCollapse == InitCollapse /\ [][NextCollapse]_vars

\* ------------------------------------------------------------------------
\* Properties of the assembly of commits and issues
\* ------------------------------------------------------------------------
\* the message contains "#" followed by the identifier
Mentions(message, id) ==
  \E i \in 1..(Len(message) - 1) : message[i] = "#" /\ <<message[i + 1]>> = id

\* the number of GetIssue calls made for the identifier
CallsFor(id) == Cardinality({k \in 1..Len(trackerCalls) : trackerCalls[k].id = id})

\* what the tracker answered for the identifier
Answered(id, answers) ==
  \E k \in 1..Len(trackerCalls) :
    trackerCalls[k].id = id /\ trackerCalls[k].got \in answers

\* the loop over the commits is over
Assembled == pc \notin {"fetch", "commits"} /\ result # "fetch"

IDsOf(summaries) == {summaries[i].ID : i \in 1..Len(summaries)}

Occurrences(summaries, id) ==
  Cardinality({i \in 1..Len(summaries) : summaries[i].ID = id})

\* C1 as stated: once the commits are assembled, GetIssue has been called
\* exactly once for every identifier that a commit message of the commit
\* source references.
C1_OnceForEveryReferencedIdentifier ==
  Assembled =>
    \A id \in IssueNames :
      (\E i \in 1..Len(git.commits) : Mentions(git.commits[i].Message, id))
        => CallsFor(id) = 1

\* C1 as amended: GetIssue is called exactly once for an identifier that the
\* message of a commit handed to addCommit references (however many of these
\* commits reference it, and also when the lookup failed or found no
\* issue), and never for any other identifier.
C1_OnceForEveryAssembledIdentifier ==
  \A id \in IssueNames :
    CallsFor(id) =
      IF \E i \in 1..Len(release.Commits) : Mentions(release.Commits[i].Message, id)
        THEN 1
        ELSE 0

\* two assembled commits reference an identifier whose one lookup failed
C1_Witness ==
  /\ pc = "done"
  /\ \E id \in IssueNames :
       /\ Cardinality({i \in 1..Len(release.Commits) :
                         Mentions(release.Commits[i].Message, id)}) = 2
       /\ Answered(id, {"error", "nil"})
       /\ CallsFor(id) = 1

\* C2: every commit summary whose message references a successfully fetched
\* identifier lists it in its IssueIDs, and the record holds one issue
\* summary for it.
C2_ListedInEveryReferencingCommit ==
  \A id \in IssueNames :
    Answered(id, {"issue", "pr"}) =>
      /\ Occurrences(release.Issues \o release.PullRequests, id) = 1
      /\ \A i \in 1..Len(release.Commits) :
           Mentions(release.Commits[i].Message, id) =>
             \E k \in 1..Len(release.Commits[i].IssueIDs) :
               release.Commits[i].IssueIDs[k] = id

\* the commits of the source that count: all but a leading release commit
Counted(i) == ~(i = 1 /\ git.commits[1].Message # <<>>
                      /\ git.commits[1].Message[1] = "release ")

Range(q) == {q[i] : i \in 1..Len(q)}

\* the records of the input that share the triple of the record r
GroupOf(r) == {d \in Range(depsIn) : Key(d) = Key(r)}

\* C4: the output record of every group has the least FromVersion and the
\* greatest ToVersion of the group, in string order.
C4_MinFromAndMaxTo ==
  collapseCalls >= 1 =>
    \A r \in Range(depsOut[1]) :
      /\ \E d \in GroupOf(r) : d.FromVersion = r.FromVersion
      /\ \E d \in GroupOf(r) : d.ToVersion = r.ToVersion
      /\ \A d \in GroupOf(r) :
           /\ ~StrLess(d.FromVersion, r.FromVersion)
           /\ ~StrLess(r.ToVersion, d.ToVersion)

\* the example of the specification
ExampleIn ==
  <<Dep(<<"A">>, <<"R">>, <<"C">>, <<"u1">>, V10, <<"n1">>, V20, <<"n1">>),
    Dep(<<"A">>, <<"R">>, <<"C">>, <<"u1">>, V05, <<"n1">>, V10, <<"n1">>),
    Dep(<<"A">>, <<"R">>, <<"C", "2">>, <<"u1">>, V10, <<"n1">>, V11, <<"n1">>)>>

ExampleOut ==
  <<Dep(<<"A">>, <<"R">>, <<"C">>, <<"u1">>, V05, <<"n1">>, V20, <<"n1">>),
    Dep(<<"A">>, <<"R">>, <<"C", "2">>, <<"u1">>, V10, <<"n1">>, V11, <<"n1">>)>>

\* C5: the output holds exactly one record for every (owner, repo,
\* component) of the input and none for any other triple; the example of the
\* specification yields its two records.
C5_OneRecordPerTriple ==
  collapseCalls >= 1 =>
    /\ \A i, j \in 1..Len(depsOut[1]) :
         i # j => Key(depsOut[1][i]) # Key(depsOut[1][j])
    /\ {Key(r) : r \in Range(depsOut[1])} = {Key(d) : d \in Range(depsIn)}
    /\ depsIn = ExampleIn => depsOut[1] = ExampleOut

\* the example has been collapsed
C5_Witness == collapseCalls >= 1 /\ depsIn = ExampleIn /\ Len(depsOut[1]) = 2

\* C6: collapsing what a call returned returns the same list; an empty input
\* gives an empty output; a record that is alone in its group is in the
\* output as it is.
C6_Idempotent ==
  /\ collapseCalls >= 2 => depsOut[2] = depsOut[1]
  /\ collapseCalls >= 1 =>
       /\ depsIn = <<>> => depsOut[1] = <<>>
       /\ \A d \in Range(depsIn) :
            Cardinality({i \in 1..Len(depsIn) : Key(depsIn[i]) = Key(d)}) = 1
              => d \in Range(depsOut[1])

\* a list of three records with a group of two and a group of one has been
\* collapsed twice
C6_Witness ==
  /\ collapseCalls = 2
  /\ Len(depsIn) = 3
  /\ Len(depsOut[1]) = 2
  /\ depsOut[2] = depsOut[1]
  /\ \E d \in Range(depsIn) : d.URL = <<"u2">> /\ d \in Range(depsOut[1])

\* ------------------------------------------------------------------------
\* Properties of the failure handling and of the rendering
\* ------------------------------------------------------------------------
\* no call outside the assembly is made to fail and no template is set
OnlyAssemblyCanFail ==
  /\ ~git.err
  /\ env.fault = "none"
  /\ o.Header = <<>> /\ o.HeaderFile = ""
  /\ o.Footer = <<>> /\ o.FooterFile = ""

\* C7: a failing issue lookup or user resolution never aborts the assembly:
\* every commit handed to addCommit gets its summary, every reference of its
\* message is looked up (the ones after a failed lookup too), a fetched
\* issue is recorded, the loop goes on to the last commit, and Run's result
\* carries no error of the assembly.
C7_FailuresDoNotAbort ==
  /\ pc = "commits" => result = "running"
  /\ pc \in {"commits", "publish", "store", "activity"} =>
       Len(release.Commits) =
         Cardinality({i \in 1..(idx - 1) : Included(o.IncludeMergeCommits, commits[i])})
  /\ Assembled => idx = Len(commits) + 1
  /\ \A i \in 1..Len(release.Commits) : \A id \in IssueNames :
       Mentions(release.Commits[i].Message, id) =>
         /\ CallsFor(id) >= 1
         /\ Answered(id, {"issue", "pr"}) =>
              /\ id \in IDsOf(release.Issues \o release.PullRequests)
              /\ \E j \in 1..Len(release.Commits) :
                   id \in Range(release.Commits[j].IssueIDs)
  /\ (pc = "done" /\ OnlyAssemblyCanFail) => result = "nil"

\* Run has ended without error after a commit whose author could not be
\* resolved, whose first reference failed to be looked up and whose second
\* reference was fetched, and after a second commit
C7_Witness ==
  /\ pc = "done" /\ result = "nil"
  /\ Len(release.Commits) = 2
  /\ release.Commits[1].Author = ""
  /\ env.resolver["alice"] = "error"
  /\ Len(trackerCalls) = 2
  /\ trackerCalls[1].got = "error"
  /\ trackerCalls[2].got = "issue"
  /\ release.Commits[1].IssueIDs = <<trackerCalls[2].id>>
  /\ release.Issues # <<>> /\ release.Issues[1].User = ""

\* C8: no identifier is twice in Issues, none is twice in PullRequests and
\* none is in both; a fetched issue is in PullRequests exactly when the
\* tracker flags it as a pull request, and in Issues otherwise.
C8_IssuesAndPullRequestsDisjoint ==
  \A id \in IssueNames :
    /\ Occurrences(release.Issues, id) <= 1
    /\ Occurrences(release.PullRequests, id) <= 1
    /\ ~(id \in IDsOf(release.Issues) /\ id \in IDsOf(release.PullRequests))
    /\ id \in IDsOf(release.PullRequests) <=> Answered(id, {"pr"})
    /\ id \in IDsOf(release.Issues) <=> Answered(id, {"issue"})

\* an issue and a pull request have been fetched, and two commits reference
\* the issue
C8_Witness ==
  /\ pc = "done"
  /\ Len(release.Issues) = 1 /\ Len(release.PullRequests) = 1
  /\ Len(release.Commits) = 2
  /\ \A i \in 1..2 : Mentions(release.Commits[i].Message, release.Issues[1].ID)

\* Run has got past the rendering of lines 394-406
Rendered ==
  \/ pc \in {"publish", "store", "activity"}
  \/ pc = "done" /\ result \in {"nil", "tags", "find", "writeMarkdown",
                                "writeYaml", "activity"}

\* the version the release spec has when the templates are expanded
RenderedVersion == IF o.Version = <<>> THEN SpecVersion ELSE o.Version

\* the expansion of each header or footer that renders
Expansion(templateText, templateFile) ==
  IF templateText = <<"H:", "{{.Version}}", "\n">>
    THEN <<"H:">> \o RenderedVersion \o <<"\n">>
    ELSE IF templateText = <<>> /\ templateFile = "notes.md"
           THEN <<"F:">> \o RenderedVersion \o <<"\n">>
           ELSE <<>>

\* C9: the markdown is the expansion of the header, then the body, then the
\* expansion of the footer; a position for which neither a text nor a file
\* is configured is empty and raises no error.
C9_HeaderBodyFooter ==
  /\ Rendered =>
       markdown = Expansion(o.Header, o.HeaderFile)
                    \o <<"## Changes\n">>
                    \o [i \in 1..Len(release.Commits) |-> release.Commits[i].SHA]
                    \o Expansion(o.Footer, o.FooterFile)
  /\ (pc = "done" /\ OnlyAssemblyCanFail) => result = "nil" /\ Rendered
  /\ (pc = "done" /\ ~git.err /\ env.fault = "none"
        /\ o.Header = <<>> /\ o.HeaderFile = ""
        /\ o.Footer = <<"H:", "{{.Version}}", "\n">>) => result = "nil" /\ Rendered
  /\ (pc = "done" /\ ~git.err /\ env.fault = "none"
        /\ o.Footer = <<>> /\ o.FooterFile = ""
        /\ o.Header = <<"H:", "{{.Version}}", "\n">>) => result = "nil" /\ Rendered

\* the example of the specification: header "H:{{.Version}}\n", no footer,
\* version 2.0.1
C9_Witness ==
  /\ pc = "done" /\ result = "nil"
  /\ o.Header = <<"H:", "{{.Version}}", "\n">>
  /\ o.Footer = <<>> /\ o.FooterFile = ""
  /\ o.Version = V201
  /\ markdown = <<"H:", "2.0.1", "\n", "## Changes\n", "c1">>

\* the text of a header or footer, when it can be read
TextOf(templateText, templateFile) ==
  IF templateText # <<>>
    THEN templateText
    ELSE IF templateFile \in DOMAIN TemplateFiles
           THEN TemplateFiles[templateFile]
           ELSE <<>>

\* the text does not parse, or does not execute against the release spec
Broken(templateText) ==
  \E i \in 1..Len(templateText) : templateText[i] \in {"{{", "{{.Missing}}"}

Readable(templateText, templateFile) ==
  templateText # <<>> \/ templateFile \in DOMAIN TemplateFiles \cup {""}

NoSinkTouched ==
  /\ scmReleases = ReleasesBefore(env)
  /\ fs = NoFiles
  /\ activity = NoActivity

\* C10: when the header or the footer does not parse or does not execute,
\* Run gets no further than the rendering and returns that error (unless the
\* other template's file cannot be read, which is returned instead), and no
\* release is created or updated, no file written and no PipelineActivity
\* updated.
C10_TemplateErrorIsFatal ==
  (~git.err /\ env.fault = "none"
     /\ \/ Broken(TextOf(o.Header, o.HeaderFile))
        \/ Broken(TextOf(o.Footer, o.FooterFile)))
  => /\ pc \in {"fetch", "commits", "done"}
     /\ NoSinkTouched
     /\ pc = "done" => result \in {"template", "read"}
     /\ (pc = "done" /\ Readable(o.Header, o.HeaderFile)
           /\ Readable(o.Footer, o.FooterFile)) => result = "template"

\* Run has returned the error of a footer that does not execute, with a
\* header that renders and every output enabled
C10_Witness ==
  /\ pc = "done" /\ result = "template"
  /\ o.Header = <<"H:", "{{.Version}}", "\n">>
  /\ o.Footer = <<"H:", "{{.Missing}}">>
  /\ o.UpdateRelease /\ o.GenerateReleaseYaml /\ o.BuildNumber # ""
  /\ Len(release.Commits) = 1
  /\ NoSinkTouched

\* ------------------------------------------------------------------------
\* Properties of publishing and storing
\* ------------------------------------------------------------------------
\* Run has ended after its Publish step was taken with the release store in
\* use
PublishedToStore ==
  /\ pc = "done"
  /\ markdown # <<>>
  /\ o.UpdateRelease

\* the version of the run and the tag Run resolves for it
RunVersion == IF o.Version = <<>> THEN SpecVersion ELSE o.Version
ResolvedTag == TagName(RunVersion, env.gitTags)

\* the releases the store holds for the tag, now and before the first run
HeldNow == FindByTag(scmReleases, ResolvedTag)
HeldBefore == FindByTag(ReleasesBefore(env), ResolvedTag)

\* the create call, or the update call, of the release store failed in the
\* run that has ended
CreateFailed == PublishedToStore /\ env.fault = "create" /\ HeldNow = {}
UpdateFailed ==
  PublishedToStore /\ env.fault = "update" /\ (HeldBefore # {} \/ runNo > 1)
RemoteCallFailed == CreateFailed \/ UpdateFailed

\* C11: when the create or update call of the release store fails, Run
\* returns no error and the rest of the run still takes place: the release is
\* kept in o.State, the release YAML is written when that is enabled and the
\* PipelineActivity of a known build is updated
C11_RemoteFailureDoesNotStopRun ==
  RemoteCallFailed =>
    /\ result = "nil"
    /\ State.Release = "release"
    /\ (o.GenerateReleaseYaml => fs.releaseYaml.written)
    /\ (o.BuildNumber # "" => activity.updated)

\* ------------------------------------------------------------------------
\* Properties of the commit list
\* ------------------------------------------------------------------------
\* the commit source has no commit between the two revisions: it fails to
\* find any, or it returns none
NoCommitsFound == git.err \/ git.commits = <<>>

\* C12: when there are no commits between the two revisions, a run with
\* fail-if-no-commits off goes on with zero CommitSummary records and a run
\* with fail-if-no-commits on returns an error
C12_NoCommitsFollowsFlag ==
  (NoCommitsFound /\ pc # "fetch") =>
    IF o.FailIfFindCommits
      THEN result = "fetch"
      ELSE result # "fetch" /\ Len(release.Commits) = 0

\* ------------------------------------------------------------------------
\* Properties of the release store
\* ------------------------------------------------------------------------
\* C13 as stated: after a Run with update-release enabled that returned no
\* error, the release store holds exactly one release for the resolved tag
C13_ExactlyOneReleaseForTag ==
  (PublishedToStore /\ result = "nil") => Cardinality(HeldNow) = 1

\* C13: the release store never holds two releases for one tag, however
\* often the command is run; after a Run with update-release enabled that
\* returned no error it holds exactly one release for the resolved tag,
\* unless the create call failed and it holds none; a release the store held
\* for the tag keeps its ID, and when neither call failed the release carries
\* the markdown and the version of this run
C13_OneReleaseForTagUnlessCreateFailed ==
  /\ \A r1, r2 \in scmReleases : r1.Tag = r2.Tag => r1 = r2
  /\ (PublishedToStore /\ result = "nil") =>
       /\ Cardinality(HeldNow) = IF CreateFailed THEN 0 ELSE 1
       /\ \A old \in HeldBefore : \E r \in HeldNow : r.ID = old.ID
       /\ ~RemoteCallFailed =>
            \A r \in HeldNow : r.Description = markdown /\ r.Title = RunVersion

\* a second run has updated the release that the first run created
C13_Witness ==
  /\ PublishedToStore /\ result = "nil"
  /\ runNo = 2
  /\ env.fault = "none"
  /\ HeldBefore = {}
  /\ Cardinality(HeldNow) = 1

\* ------------------------------------------------------------------------
\* Properties of the order of the commits
\* ------------------------------------------------------------------------
\* C14: the CommitSummary list of the release record is at every moment an
\* order-preserving subsequence of the list the commit source supplied: its
\* records are those of source commits at increasing positions
C14_OrderPreservingSubsequence ==
  \E f \in [1..Len(release.Commits) -> 1..Len(git.commits)] :
    /\ \A i, j \in 1..Len(release.Commits) : i < j => f[i] < f[j]
    /\ \A i \in 1..Len(release.Commits) :
         /\ release.Commits[i].SHA = git.commits[f[i]].Hash
         /\ release.Commits[i].Message = git.commits[f[i]].Message

\* a run has ended with two commits of the source in the record
C14_Witness ==
  /\ pc = "done"
  /\ Len(release.Commits) = 2
  /\ release.Commits[1].SHA = git.commits[1].Hash
  /\ release.Commits[2].SHA = git.commits[2].Hash

\* ------------------------------------------------------------------------
\* Properties of the release record after it has been built
\* ------------------------------------------------------------------------
\* the markdown has been rendered and Run has not ended
AfterRender == pc \in {"publish", "store", "activity"}

\* C15: every step of Run after the markdown was rendered leaves the version,
\* the commits, the issues, the pull requests and the dependency updates of
\* the release record as they were; only the release-notes URL may change
C15_FrozenExceptNotesURL ==
  [][AfterRender =>
       /\ release'.Version = release.Version
       /\ release'.Commits = release.Commits
       /\ release'.Issues = release.Issues
       /\ release'.PullRequests = release.PullRequests
       /\ release'.DependencyUpdates = release.DependencyUpdates]_vars

\* ------------------------------------------------------------------------
\* Properties of CollapseDependencyUpdates under reordering of its input
\* ------------------------------------------------------------------------
\* the slice s with its records in the order p
Permuted(s, p) == [i \in 1..Len(s) |-> s[p[i]]]

\* C16: the result of CollapseDependencyUpdates is the same, in every field of
\* every record, for every permutation of its input, also when input records
\* agree on owner, repo, component and versions and differ in other fields
C16_SameForEveryPermutation ==
  collapseCalls >= 1 =>
    \A p \in Orderings(Len(depsIn)) :
      \A c \in CollapseDependencyUpdates(Permuted(depsIn, p)) : c[2] = depsOut[1]

\* ------------------------------------------------------------------------
\* Properties of the references between commits and issues
\* ------------------------------------------------------------------------
\* the identifiers that the CommitSummary records list
ListedIDs ==
  UNION {{release.Commits[i].IssueIDs[k] : k \in 1..Len(release.Commits[i].IssueIDs)} :
           i \in 1..Len(release.Commits)}

\* C17: after every addCommit call, every identifier listed by a
\* CommitSummary is the ID of exactly one IssueSummary of Issues and
\* PullRequests together, every IssueSummary of the two lists is listed by a
\* CommitSummary, and an identifier whose lookup failed or found no issue is
\* neither listed nor the ID of an IssueSummary
C17_ReferentiallyConsistent ==
  /\ \A id \in ListedIDs :
       Occurrences(release.Issues \o release.PullRequests, id) = 1
  /\ IDsOf(release.Issues \o release.PullRequests) \subseteq ListedIDs
  /\ \A id \in IssueNames :
       Answered(id, {"error", "nil"}) =>
         /\ id \notin ListedIDs
         /\ id \notin IDsOf(release.Issues \o release.PullRequests)

\* two commits have been added: one identifier was fetched and is listed, the
\* lookup of another failed
C17_Witness ==
  /\ Len(release.Commits) = 2
  /\ \E id \in ListedIDs : Answered(id, {"issue", "pr"})
  /\ \E id \in IssueNames : Answered(id, {"error", "nil"}) /\ id \notin ListedIDs

====
